---------------------------- MODULE Spec2Model ----------------------------
(***************************************************************************)
(* Model of the broker's request filter: src/lib/replace-vars.ts           *)
(* (replaceVars) and src/lib/filters.ts (createFilters, the rule closures  *)
(* it compiles, validateHeaders, getAuthHeader and the dispatcher).         *)
(*                                                                         *)
(* Strings are sequences of one-character strings, so that scanning,       *)
(* splitting and replacing are computed character by character as the      *)
(* JavaScript does.  JavaScript values that may be undefined are records   *)
(* tagged with a field t.                                                  *)
(***************************************************************************)
EXTENDS Naturals, Sequences, FiniteSets, TLC

VARIABLES
    config,      \* the configuration map (./config), key string -> value string
    ruleSource,  \* the argument given to createFilters
    phase,       \* "init" | "ready" (createFilters returned) | "threw";
                 \* for replaceVars alone: "template" | "replaced"
    thrown,      \* what createFilters threw ("none" when it did not)
    tests,       \* the compiled rule closures (filters.ts:87), in order
    req,         \* the payload of the last dispatcher call
    results,     \* what each closure invoked for req returned, in order
    delivered,   \* the arguments the dispatcher gave to its callback
    input,       \* replaceVars: the template of the last call
    output       \* replaceVars: what the last call returned

vars == <<config, ruleSource, phase, thrown, tests, req, results, delivered,
          input, output>>

(***************************************************************************)
(* Bounds                                                                  *)
(***************************************************************************)
MaxTplLen == 7
MaxUrlLen == 4

(***************************************************************************)
(* Strings                                                                 *)
(***************************************************************************)
\* The element of a one-element set.  The({e(x) : x \in {v}}) is e(v) with v
\* computed once, however often e uses it.
The(S) == CHOOSE x \in S : TRUE

\* All strings over alphabet of length at most n.
StringsUpTo(alphabet, n) == UNION {[1..k -> alphabet] : k \in 0..n}

\* Object with no own property, and JavaScript's undefined.
EmptyMap == [k \in {} |-> <<>>]
Undefined == [t |-> "undefined"]

\* s.indexOf(sub): the first position where sub occurs in s, 0 when none.
IndexOf(s, sub) ==
    LET hits == {i \in 1..(Len(s) + 1 - Len(sub)) :
                    SubSeq(s, i, i + Len(sub) - 1) = sub}
    IN  IF hits = {} THEN 0 ELSE CHOOSE i \in hits : \A j \in hits : i <= j

\* The '.' of a JavaScript regular expression matches no line terminator.
IsLineTerminator(c) == c \in {"\n", "\r"}

(***************************************************************************)
(* replaceVars (src/lib/replace-vars.ts)                                   *)
(***************************************************************************)
\* Where a match of /(\${.*?})/ that starts at position i ends: the position
\* of the first "}" after "${", 0 when position i starts no match.
SpanEnd(s, i) ==
    IF i + 1 <= Len(s) /\ s[i] = "$" /\ s[i + 1] = "{"
    THEN LET closes == {j \in (i + 2)..Len(s) : s[j] = "}"}
         IN  IF closes = {} THEN 0
             ELSE LET j == CHOOSE c \in closes : \A d \in closes : c <= d
                  IN  IF \E k \in (i + 2)..(j - 1) : IsLineTerminator(s[k])
                      THEN 0 ELSE j
    ELSE 0

\* replaceMap[key] ?? ''
Lookup(replaceMap, key) ==
    IF key \in DOMAIN replaceMap THEN replaceMap[key] ELSE <<>>

\* String.prototype.replace with a global pattern and a callback: matches are
\* found left to right in the input; the text a callback returns is copied to
\* the output and is not scanned.
RECURSIVE ReplaceFrom(_, _, _)
ReplaceFrom(s, i, replaceMap) ==
    IF i > Len(s) THEN <<>>
    ELSE The({IF j = 0
              THEN <<s[i]>> \o ReplaceFrom(s, i + 1, replaceMap)
              ELSE Lookup(replaceMap, SubSeq(s, i + 2, j - 1))
                       \o ReplaceFrom(s, j + 1, replaceMap) :
              j \in {SpanEnd(s, i)}})

\* A replaceVars that expands the placeholders of substituted values too.
ReplaceVarsRescan(s, replaceMap) ==
    The({ReplaceFrom(once, 1, replaceMap) : once \in {ReplaceFrom(s, 1, replaceMap)}})

ReplaceVars(s, replaceMap) ==
    IF s = <<>> THEN <<>> ELSE ReplaceFrom(s, 1, replaceMap)


(***************************************************************************)
(* JavaScript values and the library calls of src/lib/filters.ts           *)
(***************************************************************************)
JsString(s) == [t |-> "string", v |-> s]
JsArray(a) == [t |-> "array", v |-> a]
JsObject(f) == [t |-> "object", f |-> f]
JsFalse == [t |-> "boolean", v |-> FALSE]
JsTrue == [t |-> "boolean", v |-> TRUE]

\* Whether a JavaScript `if (x)` takes the branch.
Truthy(x) ==
    CASE x.t = "undefined" -> FALSE
      [] x.t = "boolean" -> x.v
      [] x.t = "string" -> x.v # <<>>
      [] OTHER -> TRUE

\* parts.join(sep), from part i on.
RECURSIVE JoinFrom(_, _, _)
JoinFrom(parts, sep, i) ==
    IF i > Len(parts) THEN <<>>
    ELSE IF i = Len(parts) THEN parts[i]
    ELSE parts[i] \o sep \o JoinFrom(parts, sep, i + 1)

Join(parts, sep) == JoinFrom(parts, sep, 1)

\* String(x), as RegExp.prototype.test coerces its argument.
ToStr(x) ==
    CASE x.t = "string" -> x.v
      [] x.t = "undefined" -> <<"u", "n", "d", "e", "f", "i", "n", "e", "d">>
      [] x.t = "array" -> Join(x.v, <<",">>)
      [] OTHER -> <<"[", "o", "b", "j", "e", "c", "t", " ",
                    "O", "b", "j", "e", "c", "t", "]">>

\* s.split(sep) for a one-character separator: the texts between one cut and
\* the next, the cuts being the separators and the two ends of s.
Split(s, sep) ==
    The({[k \in 1..(Cardinality(cuts) - 1) |->
             The({SubSeq(s, a + 1, b - 1) :
                  <<a, b>> \in {c \in cuts \X cuts :
                      /\ Cardinality({x \in cuts : x < c[1]}) = k - 1
                      /\ Cardinality({x \in cuts : x < c[2]}) = k}})] :
         cuts \in {{0} \union {i \in 1..Len(s) : s[i] = sep}
                       \union {Len(s) + 1}}})

LowerChar(c) ==
    CASE c = "A" -> "a" [] c = "E" -> "e" [] c = "G" -> "g" [] c = "N" -> "n"
      [] c = "O" -> "o" [] c = "P" -> "p" [] c = "S" -> "s" [] c = "T" -> "t"
      [] c = "Y" -> "y" [] OTHER -> c

\* String.prototype.toLowerCase
ToLowerCase(s) == [i \in 1..Len(s) |-> LowerChar(s[i])]

\* The segments of a posix path that survive normalization, from segment i
\* on: empty and "." segments are dropped, ".." removes the segment before
\* it; at the start of a relative path ".." is kept, at the root it is dropped.
RECURSIVE NormalizeSegments(_, _, _, _)
NormalizeSegments(segs, i, acc, allowAboveRoot) ==
    IF i > Len(segs) THEN acc
    ELSE The({NormalizeSegments(segs, i + 1, next, allowAboveRoot) :
              next \in {IF segs[i] = <<>> \/ segs[i] = <<".">> THEN acc
                        ELSE IF segs[i] # <<".", ".">> THEN Append(acc, segs[i])
                        ELSE IF acc # <<>> /\ acc[Len(acc)] # <<".", ".">>
                        THEN SubSeq(acc, 1, Len(acc) - 1)
                        ELSE IF allowAboveRoot THEN Append(acc, segs[i])
                        ELSE acc}})

\* path.normalize (node, posix)
PathNormalize(p) ==
    IF p = <<>> THEN <<".">>
    ELSE The({IF body = <<>>
              THEN IF p[1] = "/" THEN <<"/">>
                   ELSE IF p[Len(p)] = "/" THEN <<".", "/">> ELSE <<".">>
              ELSE (IF p[1] = "/" THEN <<"/">> ELSE <<>>) \o body
                       \o (IF p[Len(p)] = "/" THEN <<"/">> ELSE <<>>) :
              body \in {Join(kept, <<"/">>) :
                        kept \in {NormalizeSegments(segs, 1, <<>>, p[1] # "/") :
                                  segs \in {Split(p, "/")}}}})

\* url.replace(pattern, replacement) with a string pattern: only the first
\* occurrence is replaced.  (Replacements hold no "$", so no $-pattern.)
ReplaceFirst(s, pattern, replacement) ==
    LET i == IndexOf(s, pattern)
    IN  IF i = 0 THEN s
        ELSE SubSeq(s, 1, i - 1) \o replacement
                 \o SubSeq(s, i + Len(pattern), Len(s))

(***************************************************************************)
(* path-to-regexp 1.x: pathRegexp(entryPath, keys) and regexp.exec(url),   *)
(* for templates whose segments are literal text or one ":name" each.      *)
(***************************************************************************)
IsParam(seg) == Len(seg) >= 2 /\ seg[1] = ":"

\* The route without the trailing slash that non-strict mode makes optional.
Route(entryPath) ==
    IF entryPath # <<>> /\ entryPath[Len(entryPath)] = "/"
    THEN SubSeq(entryPath, 1, Len(entryPath) - 1) ELSE entryPath

\* The elements of seq at the positions of the set idx, in order.
Pick(seq, idx) ==
    [k \in 1..Cardinality(idx) |->
        seq[The({i \in idx : Cardinality({j \in idx : j < i}) = k - 1})]]

ParamPositions(rsegs) == {i \in 1..Len(rsegs) : IsParam(rsegs[i])}

\* keys: the parameter names, in order.
PathKeys(entryPath) ==
    The({[k \in 1..Cardinality(ParamPositions(rsegs)) |->
             Tail(Pick(rsegs, ParamPositions(rsegs))[k])] :
         rsegs \in {Split(Route(entryPath), "/")}})

\* A literal segment matches without regard to case, a parameter matches one
\* segment that is not empty.
SegmentsMatch(rsegs, psegs) ==
    /\ Len(rsegs) = Len(psegs)
    /\ \A i \in 1..Len(rsegs) :
          IF IsParam(rsegs[i]) THEN psegs[i] # <<>>
          ELSE ToLowerCase(rsegs[i]) = ToLowerCase(psegs[i])

\* regexp.exec(url): null, or the captured segments res[1], res[2], ...  The
\* url may end with one slash more than the route.
RegexpExec(entryPath, url) ==
    The({IF SegmentsMatch(rsegs, full)
         THEN [matched |-> TRUE,
               captures |-> Pick(full, ParamPositions(rsegs))]
         ELSE IF url # <<>> /\ url[Len(url)] = "/" /\ SegmentsMatch(rsegs, bare)
         THEN [matched |-> TRUE,
               captures |-> Pick(bare, ParamPositions(rsegs))]
         ELSE [matched |-> FALSE, captures |-> <<>>] :
         rsegs \in {Split(Route(entryPath), "/")},
         full \in {Split(url, "/")},
         bare \in {Split(SubSeq(url, 1, Len(url) - 1), "/")}})

(***************************************************************************)
(* Bodies, querystrings and the libraries that read them                   *)
(***************************************************************************)
\* tryJSONParse(body): the parsed value, {} when the text does not parse.  A
\* request body is given by the value its text parses to, or as unparseable.
TryJSONParse(body) ==
    IF body.t = "unparseable" THEN JsObject(EmptyMap) ELSE body

\* The value at a path of own properties, undefined when a key is missing or
\* the value on the way is no object.
RECURSIVE GetPath(_, _)
GetPath(obj, parts) ==
    IF parts = <<>> THEN obj
    ELSE IF obj.t = "object" /\ Head(parts) \in DOMAIN obj.f
    THEN GetPath(obj.f[Head(parts)], Tail(parts))
    ELSE Undefined

\* obj with the value at an existing path replaced.
RECURSIVE SetPath(_, _, _)
SetPath(obj, parts, value) ==
    IF parts = <<>> THEN value
    ELSE JsObject([obj.f EXCEPT
             ![Head(parts)] = SetPath(obj.f[Head(parts)], Tail(parts), value)])

\* undefsafe 2.0.x, undefsafe(obj, path, value), for an object and a path
\* without "*": returns the value now at the path; when a third argument is
\* given and the path exists, it also stores that argument at the path.
Undefsafe(obj, path, value) ==
    The({IF GetPath(obj, parts).t = "undefined"
         THEN [ret |-> Undefined, obj |-> obj]
         ELSE [ret |-> GetPath(obj, parts),
               obj |-> IF Truthy(value) THEN SetPath(obj, parts, value)
                       ELSE obj] :
         parts \in {Split(path, ".")}})

\* new RegExp(regex) throws for an unbalanced parenthesis.
RegExpThrows(regex) == \E i \in 1..Len(regex) : regex[i] \in {"(", ")"}

\* re.test(text) for a pattern of literal characters: text contains it.
RegExpTest(regex, text) == IndexOf(text, regex) # 0

\* qs.parse(querystring) for a querystring of one "key=value" pair.
QsParse(querystring) ==
    LET i == IndexOf(querystring, <<"=">>)
        key == IF i = 0 THEN querystring ELSE SubSeq(querystring, 1, i - 1)
        val == IF i = 0 THEN <<>>
               ELSE SubSeq(querystring, i + 1, Len(querystring))
    IN  IF key = <<>> THEN EmptyMap ELSE [k \in {key} |-> val]

\* The match of a glob whose only magic character is "*" against text.
RECURSIVE GlobFrom(_, _)
GlobFrom(text, pattern) ==
    IF pattern = <<>> THEN text = <<>>
    ELSE IF Head(pattern) = "*"
    THEN \/ GlobFrom(text, Tail(pattern))
         \/ text # <<>> /\ Head(text) # "/" /\ GlobFrom(Tail(text), pattern)
    ELSE text # <<>> /\ Head(text) = Head(pattern)
             /\ GlobFrom(Tail(text), Tail(pattern))

\* minimatch(text, pattern): a pattern without "*" is compared as text; a "*"
\* at the start matches no empty text and no text that starts with a dot.
Minimatch(text, pattern) ==
    IF \A i \in 1..Len(pattern) : pattern[i] # "*" THEN text = pattern
    ELSE /\ GlobFrom(text, pattern)
         /\ Head(pattern) = "*" => (text # <<>> /\ Head(text) # ".")

(***************************************************************************)
(* getAuthHeader and validateHeaders                                       *)
(***************************************************************************)
\* Rules of the model use the token scheme only (the basic scheme needs
\* base64); any other scheme falls through both tests and returns undefined.
GetAuthHeader(auth, cfg) ==
    IF auth.scheme = "token"
    THEN JsString(<<"T", "o", "k", "e", "n", " ">> \o ReplaceVars(auth.token, cfg))
    ELSE Undefined

\* requestHeaders[filter.header]
HeaderValue(requestHeaders, name) ==
    IF name \in DOMAIN requestHeaders THEN JsString(requestHeaders[name])
    ELSE Undefined

\* The body of validateHeaders' loop: TRUE when the filter makes it return false.
HeaderFilterFails(filter, requestHeaders) ==
    LET headerValue == HeaderValue(requestHeaders, filter.header)
    IN  \/ ~Truthy(headerValue)
        \/ ~(\E i \in 1..Len(filter.values) : filter.values[i] = headerValue.v)

ValidateHeaders(headerFilters, requestHeaders) ==
    ~(\E i \in 1..Len(headerFilters) :
          HeaderFilterFails(headerFilters[i], requestHeaders))

(***************************************************************************)
(* createFilters: compiling one rule (filters.ts:87-136)                   *)
(***************************************************************************)
\* The keys of the ${...} spans of a rule path, as String.replace finds them.
RECURSIVE SpanKeysFrom(_, _)
SpanKeysFrom(s, i) ==
    IF i > Len(s) THEN {}
    ELSE LET j == SpanEnd(s, i)
         IN  IF j = 0 THEN SpanKeysFrom(s, i + 1)
             ELSE {SubSeq(s, i + 2, j - 1)} \union SpanKeysFrom(s, j + 1)

\* fromConfig[key] = config[key] ?? '' for every span of the rule path.
FromConfig(rule, cfg) ==
    IF "path" \in DOMAIN rule
    THEN [key \in SpanKeysFrom(rule.path, 1) |-> Lookup(cfg, key)]
    ELSE EmptyMap

\* entryPath: every span replaced by ':' + key, then the leading slash.
EntryPath(rule) ==
    LET replaced ==
            IF "path" \in DOMAIN rule
            THEN ReplaceFrom(rule.path, 1,
                     [key \in SpanKeysFrom(rule.path, 1) |-> <<":">> \o key])
            ELSE <<"/">>
    IN  IF replaced = <<>> \/ replaced[1] # "/" THEN <<"/">> \o replaced
        ELSE replaced

IsBodyRegexFilter(v) == "path" \in DOMAIN v /\ "regex" \in DOMAIN v
IsBodyFilter(v) == "path" \in DOMAIN v /\ "regex" \notin DOMAIN v
IsQueryFilter(v) == "queryParam" \in DOMAIN v
IsHeaderFilter(v) == "header" \in DOMAIN v

\* A path regexp compiled with the g flag, whose exec keeps lastIndex.
RegexpGlobalFlag == TRUE

\* path-to-regexp compiles with the flag i alone.
RegexpGlobal == FALSE

\* rule.method.toLowerCase() throws when the rule declares no method, before
\* ?? 'get' is evaluated.
MethodThrows(rule) == "method" \notin DOMAIN rule

\* The closure that rules.map returns for a rule, as the state it captures.
CompileRule(rule, cfg) ==
    LET valid == IF "valid" \in DOMAIN rule THEN rule.valid ELSE <<>>
    IN  [method |-> ToLowerCase(rule.method),
         bodyRegexFilters |-> SelectSeq(valid, IsBodyRegexFilter),
         bodyFilters |-> SelectSeq(valid, IsBodyFilter),
         queryFilters |-> SelectSeq(valid, IsQueryFilter),
         headerFilters |-> SelectSeq(valid, IsHeaderFilter),
         fromConfig |-> FromConfig(rule, cfg),
         entryPath |-> EntryPath(rule),
         origin |-> ReplaceVars(rule.origin, cfg),
         keys |-> PathKeys(EntryPath(rule)),
         regexp |-> [global |-> RegexpGlobal, lastIndex |-> 0],
         rule |-> rule]

\* A resolution of the rule source in which a failing load is not caught.
ResolveRulesUncaught(source) ==
    IF source.t = "array" THEN [threw |-> "none", rules |-> source]
    ELSE IF Truthy(source)
    THEN IF source.loads THEN [threw |-> "none", rules |-> source.exports]
         ELSE [threw |-> "load", rules |-> JsArray(<<>>)]
    ELSE [threw |-> "none", rules |-> JsArray(<<>>)]

\* filters.ts:63-76: an array is taken as it is; a reference is loaded, and a
\* failing load leaves the empty list; anything falsy leaves the empty list.
ResolveRules(source) ==
    IF source.t = "array" THEN [threw |-> "none", rules |-> source]
    ELSE IF Truthy(source)
    THEN IF source.loads THEN [threw |-> "none", rules |-> source.exports]
         ELSE [threw |-> "none", rules |-> JsArray(<<>>)]
    ELSE [threw |-> "none", rules |-> JsArray(<<>>)]

\* createFilters(ruleSource): what it throws, and the closures it compiled.
CreateFiltersResult(source, cfg) ==
    LET resolved == ResolveRules(source)
        rules == resolved.rules
    IN  IF resolved.threw # "none"
        THEN [threw |-> resolved.threw, tests |-> <<>>]
        ELSE IF rules.t # "array"
        THEN [threw |-> "Expected array of filter rules", tests |-> <<>>]
        ELSE IF \E i \in 1..Len(rules.v) : MethodThrows(rules.v[i])
        THEN [threw |-> "TypeError", tests |-> <<>>]
        ELSE [threw |-> "none",
              tests |-> [i \in 1..Len(rules.v) |-> CompileRule(rules.v[i], cfg)]]

(***************************************************************************)
(* The rule closure (filters.ts:138-245)                                   *)
(***************************************************************************)
\* A traversal test that normalizes the path in front of the first "?" only.
TraversalRejectedPathOnly(url) ==
    PathNormalize(Split(url, "?")[1]) # Split(url, "?")[1]

\* filters.ts:150: path.normalize(req.url) !== req.url
TraversalRejected(url) == PathNormalize(url) # url

\* regexp.exec(url) on the closure's regexp: the match, and the lastIndex the
\* regexp holds afterwards.  A regexp without the g flag ignores lastIndex and
\* leaves it alone; with it, a match anchored at the start fails from a
\* lastIndex above 0, and lastIndex moves to the end of a match.
Exec(t, url) ==
    IF t.regexp.global /\ t.regexp.lastIndex > 0
    THEN [matched |-> FALSE, captures |-> <<>>, lastIndex |-> 0]
    ELSE The({[matched |-> res.matched, captures |-> res.captures,
               lastIndex |-> IF ~t.regexp.global THEN t.regexp.lastIndex
                             ELSE IF res.matched THEN Len(url) ELSE 0] :
              res \in {RegexpExec(t.entryPath, url)}})

\* filters.ts:167-172: the captured texts replaced by the configured values.
RECURSIVE Reconstruct(_, _, _, _)
Reconstruct(url, t, captures, i) ==
    IF i > Len(captures) THEN url
    ELSE The({Reconstruct(next, t, captures, i + 1) :
              next \in {IF Lookup(t.fromConfig, t.keys[i]) # <<>>
                        THEN ReplaceFirst(url, captures[i],
                                          Lookup(t.fromConfig, t.keys[i]))
                        ELSE url}})

\* bodyFilters.some(...): undefsafe is given the allowed values as its third
\* argument; the parsed body it changed is the one the next call reads.
RECURSIVE BodySome(_, _, _)
BodySome(filters, i, parsedBody) ==
    IF i > Len(filters) THEN [isValid |-> FALSE, parsedBody |-> parsedBody]
    ELSE The({IF Truthy(r.ret) THEN [isValid |-> TRUE, parsedBody |-> r.obj]
              ELSE BodySome(filters, i + 1, r.obj) :
              r \in {Undefsafe(parsedBody, filters[i].path,
                               JsArray(filters[i].value))}})

\* bodyRegexFilters.some(...): a pattern that does not compile is no match.
BodyRegexSome(filters, parsedBody) ==
    \E i \in 1..Len(filters) :
        /\ ~RegExpThrows(filters[i].regex)
        /\ RegExpTest(filters[i].regex,
                      ToStr(Undefsafe(parsedBody, filters[i].path, Undefined).ret))

\* queryFilters.some(...): parsedQuerystring[queryParam] || '' against each glob.
QuerySome(filters, querystring) ==
    \E parsedQuerystring \in {QsParse(querystring)} :
        \E i \in 1..Len(filters) :
            \E j \in 1..Len(filters[i].values) :
                Minimatch(Lookup(parsedQuerystring, filters[i].queryParam),
                          filters[i].values[j])

\* filters.ts:182-190: the body filters, when there are any.
BodyStage(t, body) ==
    IF t.bodyFilters # <<>>
    THEN BodySome(t.bodyFilters, 1, TryJSONParse(body))
    ELSE [isValid |-> FALSE, parsedBody |-> Undefined]

\* filters.ts:192-208: the body regex filters, when nothing matched yet.
RegexStage(t, body, b) ==
    IF ~b.isValid /\ t.bodyRegexFilters # <<>>
    THEN BodyRegexSome(t.bodyRegexFilters,
                       IF Truthy(b.parsedBody) THEN b.parsedBody
                       ELSE TryJSONParse(body))
    ELSE b.isValid

\* filters.ts:211-220: the query filters, when nothing matched yet.
QueryStage(t, querystring, isValid) ==
    IF ~isValid /\ t.queryFilters # <<>>
    THEN QuerySome(t.queryFilters, querystring)
    ELSE isValid

\* filters.ts:175-225: whether the stage ran, its verdict, and the categories
\* it evaluated.
Validity(t, body, querystring) ==
    The({[ran |-> \/ t.bodyFilters # <<>>
                  \/ t.bodyRegexFilters # <<>>
                  \/ t.queryFilters # <<>>,
          isValid |-> QueryStage(t, querystring, v[2]),
          evaluated |->
              (IF t.bodyFilters # <<>> THEN {"body"} ELSE {})
                  \union (IF ~v[1].isValid /\ t.bodyRegexFilters # <<>>
                          THEN {"regex"} ELSE {})
                  \union (IF ~v[2] /\ t.queryFilters # <<>>
                          THEN {"query"} ELSE {})] :
         v \in {<<b, RegexStage(t, body, b)>> : b \in {BodyStage(t, body)}}})

Rejected(stage, lastIndex, evaluated) ==
    [ret |-> JsFalse, stage |-> stage, lastIndex |-> lastIndex,
     evaluated |-> evaluated]

\* filters.ts:174-244: the validity filters, the header filters and the result.
CheckFilters(t, r, cfg, url, querystring, lastIndex) ==
    The({IF validity.ran /\ ~validity.isValid
         THEN Rejected("valid", lastIndex, validity.evaluated)
         ELSE IF /\ t.headerFilters # <<>>
                 /\ ~ValidateHeaders(t.headerFilters, r.headers)
         THEN Rejected("headers", lastIndex, validity.evaluated)
         ELSE [ret |-> [t |-> "MatchResult",
                        url |-> t.origin \o url
                                    \o (IF querystring # <<>>
                                        THEN <<"?">> \o querystring ELSE <<>>),
                        auth |-> IF "auth" \in DOMAIN t.rule
                                 THEN GetAuthHeader(t.rule.auth, cfg)
                                 ELSE Undefined,
                        stream |-> IF "stream" \in DOMAIN t.rule
                                   THEN [t |-> "boolean", v |-> t.rule.stream]
                                   ELSE Undefined],
               stage |-> "matched",
               lastIndex |-> lastIndex,
               evaluated |-> validity.evaluated] :
         validity \in {Validity(t, r.body, querystring)}})

\* filters.ts:155-172: the fragment dropped, the url split at the first "?",
\* the path matched and rewritten.
MatchPath(t, r, cfg, parts) ==
    The({IF ~res.matched THEN Rejected("path", res.lastIndex, {})
         ELSE CheckFilters(t, r, cfg, Reconstruct(parts[1], t, res.captures, 1),
                           querystring, res.lastIndex) :
         res \in {Exec(t, parts[1])},
         querystring \in {Join(Tail(parts), <<"?">>)}})

\* test(req): what the closure returns, the stage that decided, the filter
\* categories evaluated, and the lastIndex its regexp holds afterwards.
TestRule(t, r, cfg) ==
    IF ToLowerCase(r.method) # t.method /\ t.method # <<"a", "n", "y">>
    THEN Rejected("method", t.regexp.lastIndex, {})
    ELSE IF TraversalRejected(r.url)
    THEN Rejected("traversal", t.regexp.lastIndex, {})
    ELSE The({MatchPath(t, r, cfg, parts) :
              parts \in {Split(mainURI, "?") :
                         mainURI \in {Split(r.url, "#")[1]}}})

(***************************************************************************)
(* The dispatcher (filters.ts:248-256)                                     *)
(***************************************************************************)
\* tests.some(test => test(payload)): the closures are called in order up to
\* the first that returns a truthy value.
RECURSIVE SomeTest(_, _, _, _)
SomeTest(ts, r, cfg, i) ==
    IF i > Len(ts) THEN <<>>
    ELSE The({IF out.stage = "matched" THEN <<out>>
              ELSE <<out>> \o SomeTest(ts, r, cfg, i + 1) :
              out \in {TestRule(ts[i], r, cfg)}})

Blocked == [err |-> "blocked", value |-> Undefined]

\* What the dispatcher hands to callback: (null, true) when some closure
\* matched, (Error('blocked')) otherwise.
CallbackArgs(outs) ==
    IF outs # <<>> /\ outs[Len(outs)].stage = "matched"
    THEN [err |-> "null", value |-> JsTrue]
    ELSE Blocked

\* The closures after the call: each one called holds its regexp's lastIndex.
TestsAfter(ts, outs) ==
    [i \in 1..Len(ts) |->
        IF i <= Len(outs)
        THEN [ts[i] EXCEPT !.regexp.lastIndex = outs[i].lastIndex]
        ELSE ts[i]]

(***************************************************************************)
(* The inputs: configurations, rules, rule sources and requests            *)
(***************************************************************************)
\* M, N, O and T are configured, M with a text that requests also send; U is
\* not configured.
ConfigA == (<<"M">> :> <<"p">>) @@ (<<"N">> :> <<"z">>)
               @@ (<<"O">> :> <<"o">>) @@ (<<"T">> :> <<"k">>)
Configs == {ConfigA}

Get == <<"g", "e", "t">>
\* GET /p/${N}, origin and token from the configuration, streaming.
RuleA == [method |-> <<"G", "E", "T">>,
          path |-> <<"/", "p", "/", "$", "{", "N", "}">>,
          origin |-> <<"$", "{", "O", "}">>,
          stream |-> TRUE,
          auth |-> [scheme |-> "token", token |-> <<"$", "{", "T", "}">>]]
\* any method, /${N}
RuleB == [method |-> <<"a", "n", "y">>,
          path |-> <<"/", "$", "{", "N", "}">>,
          origin |-> <<"b">>]
\* POST, no path, the origin's variable not configured
RuleC == [method |-> <<"p", "o", "s", "t">>,
          origin |-> <<"c", "$", "{", "U", "}">>]
\* no method, a path without its leading slash, its variable not configured
RuleD == [path |-> <<"$", "{", "U", "}">>, origin |-> <<"d">>]
\* GET /${M}/${N}
RuleE == [method |-> Get,
          path |-> <<"/", "$", "{", "M", "}", "/", "$", "{", "N", "}">>,
          origin |-> <<"e">>]
PathRules == {RuleA, RuleB, RuleC, RuleD, RuleE}

HeaderK == [header |-> "k", values |-> << <<"v">> >>]
HeaderE == [header |-> "e", values |-> << <<>>, <<"v">> >>]
BodyA == [path |-> <<"a">>, value |-> << <<"x">> >>]
BodyAB == [path |-> <<"a", ".", "b">>, value |-> << <<"x">>, <<"y">> >>]
RegexA == [path |-> <<"a">>, regex |-> <<"x">>, value |-> <<>>]
RegexBad == [path |-> <<"a">>, regex |-> <<"(">>, value |-> <<>>]
QueryT == [queryParam |-> <<"t">>, values |-> << <<"v", "*">> >>]
QueryTT == [queryParam |-> <<"t">>, values |-> << <<"t">>, <<"*", "v">> >>]

FilterRule(origin, valid) ==
    [method |-> Get, path |-> <<"/", "p">>, origin |-> origin, valid |-> valid]
RuleH == FilterRule(<<"h">>, <<HeaderK, HeaderE>>)
RuleF == FilterRule(<<"f">>, <<BodyA, RegexA, QueryT>>)
RuleG == FilterRule(<<"g">>, <<BodyAB, HeaderK>>)
RuleQ == FilterRule(<<"q">>, <<QueryTT>>)
RuleR == FilterRule(<<"r">>, <<RegexBad, RegexA>>)
RuleS == FilterRule(<<"s">>, <<BodyAB, BodyA>>)

\* The rule lists: every list of at most two distinct path rules, and lists
\* of the rules with filters.
RuleLists ==
    {<<>>} \union {<<a>> : a \in PathRules}
        \union {l \in PathRules \X PathRules : l[1] # l[2]}
        \union {<<RuleH>>, <<RuleF>>, <<RuleG>>, <<RuleQ>>, <<RuleR>>,
                <<RuleS>>, <<RuleF, RuleH>>}

\* An inline list, nothing, or a reference to load: one whose load fails, one
\* that exports a list, one that exports something else.
RuleSources ==
    {JsArray(l) : l \in RuleLists}
        \union {Undefined,
                [t |-> "reference", loads |-> FALSE, exports |-> Undefined],
                [t |-> "reference", loads |-> TRUE, exports |-> JsArray(<<RuleA>>)],
                [t |-> "reference", loads |-> TRUE,
                 exports |-> JsObject(EmptyMap)]}

Methods == {<<"G", "E", "T">>, <<"P", "O", "S", "T">>}
UrlAlphabet == {"/", ".", "p", "?"}
Urls == StringsUpTo(UrlAlphabet, MaxUrlLen)

Unparseable == [t |-> "unparseable"]
Bodies ==
    {Unparseable, JsObject(EmptyMap),
     JsObject(<<"a">> :> JsString(<<"x">>)),
     JsObject(<<"a">> :> JsString(<<"y">>)),
     JsObject(<<"a">> :> JsString(<<>>)),
     JsObject(<<"a">> :> JsObject(<<"b">> :> JsString(<<"x">>)))}

HeaderMaps ==
    {hk @@ he : hk \in {EmptyMap} \union {"k" :> v : v \in {<<>>, <<"v">>, <<"w">>}},
                he \in {EmptyMap} \union {"e" :> v : v \in {<<>>, <<"v">>}}}

\* /p, alone and with every querystring of at most three characters.
FilterUrls ==
    {<<"/", "p">>} \union
        {<<"/", "p", "?">> \o q : q \in StringsUpTo({"t", "=", "v"}, 3)}

\* The requests: every method and url without headers or body; and, for the
\* rules with filters, GET /p with a querystring, headers and a body.
Requests ==
    {[method |-> m, url |-> u, headers |-> EmptyMap, body |-> Unparseable] :
        m \in Methods, u \in Urls}
    \union
    {[method |-> Get, url |-> u, headers |-> EmptyMap, body |-> b] :
        u \in FilterUrls, b \in Bodies}
    \union
    {[method |-> Get, url |-> u, headers |-> h, body |-> b] :
        u \in {<<"/", "p">>, <<"/", "p", "?", "t", "=", "v">>},
        h \in HeaderMaps, b \in Bodies}

NoRequest == [method |-> <<>>, url |-> <<>>, headers |-> EmptyMap,
              body |-> Undefined]
NoCallback == [err |-> "none", value |-> Undefined]

(***************************************************************************)
(* The state machine                                                       *)
(***************************************************************************)
Init ==
    /\ config \in Configs
    /\ ruleSource \in RuleSources
    /\ phase = "init"
    /\ thrown = "none"
    /\ tests = <<>>
    /\ req = NoRequest
    /\ results = <<>>
    /\ delivered = NoCallback
    /\ input = <<>>
    /\ output = <<>>

\* createFilters(ruleSource)
CreateFilters ==
    /\ phase = "init"
    /\ LET made == CreateFiltersResult(ruleSource, config)
       IN  /\ thrown' = made.threw
           /\ tests' = made.tests
           /\ phase' = IF made.threw = "none" THEN "ready" ELSE "threw"
    /\ UNCHANGED <<config, ruleSource, req, results, delivered, input, output>>

\* The request sent after the first call, besides the last request.
Probes ==
    {[method |-> Get, url |-> u, headers |-> EmptyMap, body |-> Unparseable] :
        u \in {<<"/", "p", "/", "p">>}}

\* One call of the dispatcher that createFilters returned.  The first call
\* carries any request; a later call repeats the last request or carries a
\* probe.
Dispatch ==
    /\ phase = "ready"
    /\ \E r \in IF req = NoRequest THEN Requests ELSE {req} \union Probes :
          \E outs \in {SomeTest(tests, r, config, 1)} :
              /\ req' = r
              /\ results' = outs
              /\ delivered' = CallbackArgs(outs)
              /\ tests' = TestsAfter(tests, outs)
    /\ UNCHANGED <<config, ruleSource, phase, thrown, input, output>>

Next == CreateFilters \/ Dispatch

Spec == Init /\ [][Next]_vars

(***************************************************************************)
(* replaceVars on its own: every template over TemplateAlphabet of at most *)
(* MaxTplLen characters, under each configuration of ReplaceMaps.          *)
(***************************************************************************)
TemplateAlphabet == {"$", "{", "}", "A"}
Templates == StringsUpTo(TemplateAlphabet, MaxTplLen)

\* A is set.
MapPlain == <<"A">> :> <<"x">>
\* A is set to a text that holds a placeholder, whose key (the empty key) is
\* set too.
MapNested == (<<"A">> :> <<"$", "{", "}">>) @@ (<<>> :> <<"y">>)
ReplaceMaps == {EmptyMap, MapPlain, MapNested}

InitReplaceVars ==
    /\ config \in ReplaceMaps
    /\ ruleSource = Undefined
    /\ phase = "template"
    /\ thrown = "none"
    /\ tests = <<>>
    /\ req = NoRequest
    /\ results = <<>>
    /\ delivered = NoCallback
    /\ input = <<>>
    /\ output = <<>>

\* replaceVars(input, config)
CallReplaceVars ==
    /\ phase = "template"
    /\ \E template \in Templates :
          /\ input' = template
          /\ output' = ReplaceVars(template, config)
    /\ phase' = "replaced"
    /\ UNCHANGED <<config, ruleSource, thrown, tests, req, results, delivered>>

NextReplaceVars == CallReplaceVars

SpecReplaceVars == InitReplaceVars /\ [][NextReplaceVars]_vars

(***************************************************************************)
(* Claims about replaceVars (checked under SpecReplaceVars)                *)
(***************************************************************************)
\* The positions where a ${...} span of s starts: "${" with a "}" after it.
SpanStarts(s) ==
    {i \in 1..(Len(s) - 1) :
        /\ s[i] = "$"
        /\ s[i + 1] = "{"
        /\ \E j \in (i + 2)..Len(s) : s[j] = "}"}

Least(S) == CHOOSE x \in S : \A y \in S : x <= y

\* C7: replaceVars returns "" for "", the template itself when it holds no
\* span, and otherwise the text in front of the leftmost span, then the value
\* configured for the key of the shortest span starting there (nothing when
\* the key is not configured), copied as it is, then what replaceVars makes
\* of the text behind that span.
C7_ReplaceVars ==
    phase = "replaced" =>
        /\ input = <<>> => output = <<>>
        /\ SpanStarts(input) = {} => output = input
        /\ SpanStarts(input) # {} =>
              LET i == Least(SpanStarts(input))
                  j == Least({k \in (i + 2)..Len(input) : input[k] = "}"})
                  key == SubSeq(input, i + 2, j - 1)
              IN  output =
                      SubSeq(input, 1, i - 1)
                          \o (IF key \in DOMAIN config THEN config[key] ELSE <<>>)
                          \o ReplaceVars(SubSeq(input, j + 1, Len(input)), config)

\* Two spans, the first replaced by a value that holds a placeholder of a
\* configured key and stays as it is, the second replaced by its value.
C7_Witness ==
    /\ phase = "replaced"
    /\ config = MapNested
    /\ input = <<"$", "{", "A", "}", "$", "{", "}">>
    /\ output = <<"$", "{", "}", "y">>

(***************************************************************************)
(* Claims about createFilters and the dispatcher (checked under Spec)      *)
(***************************************************************************)
Called == phase = "ready" /\ req # NoRequest

\* The rules that match req, each closure asked on its own.
MatchingRules ==
    {i \in 1..Len(tests) : TestRule(tests[i], req, config).stage = "matched"}

\* C1: when some rule matches, the callback receives no error and the
\* MatchResult of the first matching rule in declared order; it receives
\* 'blocked' exactly when no rule matches.
C1_DeliversFirstMatch ==
    Called =>
        IF MatchingRules = {} THEN delivered = Blocked
        ELSE /\ delivered.err = "null"
             /\ delivered.value =
                    TestRule(tests[Least(MatchingRules)], req, config).ret

\* The path of req: the url without its fragment, up to the first "?".
RequestPath == Split(Split(req.url, "#")[1], "?")[1]

\* The path with each segment that a configured parameter of the closure t
\* captured replaced by the configured value, every other segment kept.
OverriddenPath(t) ==
    LET rsegs == Split(Route(t.entryPath), "/")
        psegs == Split(RequestPath, "/")
    IN  Join([k \in 1..Len(psegs) |->
                 IF /\ k <= Len(rsegs)
                    /\ IsParam(rsegs[k])
                    /\ Lookup(t.fromConfig, Tail(rsegs[k])) # <<>>
                 THEN Lookup(t.fromConfig, Tail(rsegs[k]))
                 ELSE psegs[k]],
             <<"/">>)

\* The querystring of req as a result url carries it: what follows the first
\* "?", behind a "?", when there is any.
QuerySuffix ==
    LET querystring == Join(Tail(Split(Split(req.url, "#")[1], "?")), <<"?">>)
    IN  IF querystring # <<>> THEN <<"?">> \o querystring ELSE <<>>

\* C2: a rule with a configured ${VAR} that matches returns a url whose path,
\* between the origin and the querystring, is the request path with exactly
\* the captured segments of the configured parameters replaced.
C2_PathOverride ==
    Called =>
        \A i \in 1..Len(results) :
            (/\ results[i].stage = "matched"
             /\ \E key \in DOMAIN tests[i].fromConfig :
                    tests[i].fromConfig[key] # <<>>)
            => results[i].ret.url =
                   tests[i].origin \o OverriddenPath(tests[i]) \o QuerySuffix

\* C3: a request whose url is not its own normalization is rejected by every
\* rule and answered 'blocked'.
C3_TraversalBlocked ==
    (Called /\ PathNormalize(req.url) # req.url) =>
        /\ delivered = Blocked
        /\ Len(results) = Len(tests)
        /\ \A i \in 1..Len(results) : results[i].ret = JsFalse

\* A request answered 'blocked' whose url normalization changes, sent to a
\* rule whose method and path it matches, the offending text being in the
\* querystring.
C3_Witness ==
    /\ Called
    /\ delivered = Blocked
    /\ PathNormalize(req.url) # req.url
    /\ PathNormalize(RequestPath) = RequestPath
    /\ \E i \in 1..Len(tests) :
          /\ tests[i].method = ToLowerCase(req.method)
          /\ RegexpExec(tests[i].entryPath, RequestPath).matched

\* The rule sources of C4: the empty list, no source, a reference whose load
\* fails.
FailClosedSource ==
    \/ ruleSource = JsArray(<<>>)
    \/ ruleSource = Undefined
    \/ ruleSource.t = "reference" /\ ~ruleSource.loads

\* C4: with such a source createFilters returns without throwing, compiles no
\* rule, and every request is answered 'blocked'.
C4_FailClosed ==
    (FailClosedSource /\ phase # "init") =>
        /\ phase = "ready"
        /\ thrown = "none"
        /\ tests = <<>>
        /\ req # NoRequest => delivered = Blocked

\* A request answered 'blocked' after a rule source failed to load.
C4_Witness ==
    /\ Called
    /\ ruleSource.t = "reference"
    /\ ~ruleSource.loads
    /\ tests = <<>>
    /\ delivered = Blocked

\* C5: a request that passed every other stage of a rule with header filters
\* is accepted exactly when every filter's header is present with one of the
\* filter's values.
C5_HeadersAnd ==
    Called =>
        \A i \in 1..Len(results) :
            (tests[i].headerFilters # <<>>
                 /\ results[i].stage \in {"headers", "matched"})
            => (results[i].stage = "matched"
                    <=> \A k \in 1..Len(tests[i].headerFilters) :
                            LET f == tests[i].headerFilters[k]
                            IN  /\ f.header \in DOMAIN req.headers
                                /\ \E v \in 1..Len(f.values) :
                                       f.values[v] = req.headers[f.header])

\* The value at the path of a filter in the body of req as it was sent.
BodyValue(f) == GetPath(TryJSONParse(req.body), Split(f.path, "."))

\* A body filter is satisfied: the value at its path is one of its values.
BodyFilterSatisfied(f) ==
    /\ BodyValue(f).t = "string"
    /\ \E v \in 1..Len(f.value) : f.value[v] = BodyValue(f).v

\* A body regex filter is satisfied: its pattern compiles and matches the
\* value at its path.
RegexFilterSatisfied(f) ==
    ~RegExpThrows(f.regex) /\ RegExpTest(f.regex, ToStr(BodyValue(f)))

\* A query filter is satisfied: one of its globs matches the parameter.
QueryFilterSatisfied(f, querystring) ==
    \E v \in 1..Len(f.values) :
        Minimatch(Lookup(QsParse(querystring), f.queryParam), f.values[v])

AnyFilterSatisfied(t, querystring) ==
    \/ \E k \in 1..Len(t.bodyFilters) : BodyFilterSatisfied(t.bodyFilters[k])
    \/ \E k \in 1..Len(t.bodyRegexFilters) :
           RegexFilterSatisfied(t.bodyRegexFilters[k])
    \/ \E k \in 1..Len(t.queryFilters) :
           QueryFilterSatisfied(t.queryFilters[k], querystring)

\* C6: a request that passed the method, traversal and path stages of a rule
\* passes the validity stage exactly when the rule declares no body, body
\* regex or query filter or one of them is satisfied; a category is
\* evaluated only when no earlier category matched.
C6_ValidityOr ==
    Called =>
        \A i \in 1..Len(results) :
            results[i].stage \in {"valid", "headers", "matched"} =>
                LET t == tests[i]
                    querystring ==
                        Join(Tail(Split(Split(req.url, "#")[1], "?")), <<"?">>)
                IN  /\ results[i].stage # "valid"
                        <=> \/ /\ t.bodyFilters = <<>>
                               /\ t.bodyRegexFilters = <<>>
                               /\ t.queryFilters = <<>>
                            \/ AnyFilterSatisfied(t, querystring)
                    /\ "regex" \in results[i].evaluated =>
                           ~\E k \in 1..Len(t.bodyFilters) :
                                BodyFilterSatisfied(t.bodyFilters[k])
                    /\ "query" \in results[i].evaluated =>
                           /\ ~\E k \in 1..Len(t.bodyFilters) :
                                 BodyFilterSatisfied(t.bodyFilters[k])
                           /\ ~\E k \in 1..Len(t.bodyRegexFilters) :
                                 RegexFilterSatisfied(t.bodyRegexFilters[k])

\* C8: a rule without a method compiles, to a closure whose method is "get".
C8_MethodDefault ==
    (phase # "init" /\ ruleSource.t = "array") =>
        \A i \in 1..Len(ruleSource.v) :
            "method" \notin DOMAIN ruleSource.v[i] =>
                /\ phase = "ready"
                /\ Len(tests) = Len(ruleSource.v)
                /\ tests[i].method = Get

\* C9: the first body filter of a rule, evaluated on the body as it was sent,
\* is satisfied exactly when the value at its path is one of its values.
C9_BodyFilter ==
    Called =>
        \A i \in 1..Len(results) :
            "body" \in results[i].evaluated =>
                LET f == tests[i].bodyFilters[1]
                IN  Truthy(Undefsafe(TryJSONParse(req.body), f.path,
                                     JsArray(f.value)).ret)
                        <=> BodyFilterSatisfied(f)

=============================================================================
